---- MODULE Spec2Model ----
(***************************************************************************)
(* Model of src/app.py: the SupplyChainBlockchain class (an append-only,   *)
(* hash-linked ledger with a pending pool, a product counter, validation   *)
(* and history reconstruction).                                            *)
(*                                                                         *)
(* Modelling conventions                                                   *)
(*  - A block / a transaction is a TLA+ record with the keys of the Python *)
(*    dict.  Dict values are copied by value, as tx.copy() does for the    *)
(*    flat transaction dicts.                                              *)
(*  - json.dumps(..., sort_keys=True) is modelled as the sequence of       *)
(*    <<key, value>> pairs in sorted key order; SHA-256 is modelled as an  *)
(*    ideal (collision free) digest: the string "sha256:" followed by the  *)
(*    text of the canonical serialisation.                                 *)
(*  - time.time() reads the variable now, a non-decreasing clock counted   *)
(*    in ticks; localtime() adds the UTC offset of the process's time zone, *)
(*    which drops once if the end of daylight saving time is passed        *)
(*    (dst_end); strftime("%Y-%m-%d %H:%M:%S") keeps whole seconds only.    *)
(*  - submitted is a history variable: every event handed to               *)
(*    add_transaction, in call order.  nb holds the locals of a new_block  *)
(*    call that is executed statement by statement.                        *)
(*    hashed holds the dict given to a direct call of hash(), before and   *)
(*    after the call.                                                      *)
(*  - None and "" are both falsy for `previous_hash or ...`; None is       *)
(*    represented by the empty string.                                     *)
(***************************************************************************)
EXTENDS Integers, Sequences, FiniteSets, TLC

VARIABLES chain, pending_transactions, product_counter, now,
          lastOp, ret, commits, created, repeat, tampered,
          submitted, nb, dst_end, hashed

vars == <<chain, pending_transactions, product_counter, now,
          lastOp, ret, commits, created, repeat, tampered, submitted, nb, dst_end, hashed>>

(* ------------------------------ bounds --------------------------------- *)
MaxChain == 3
MaxEvents == 2
MaxProducts == 2
MaxPid == 2
MaxTicks == 1
MaxRepeat == 2
TicksPerSecond == 2
DstShiftSeconds == 2

(* --------------------------- input domains ----------------------------- *)
GenesisProof == 100
UiProof == 123
None == ""
Sentinel == "1"

\* dst_end before any setback of the local clocks has been passed
NoDstEnd == 0

\* nb while no new_block call is in progress
NbIdle == [pc |-> "idle"]

\* the clock when the ledger is constructed: the last tick of a second
StartTime == TicksPerSecond - 1
MaxTime == StartTime + MaxTicks

Proofs == {UiProof}
ProductIds == 1..MaxPid
QueryIds == 1..(MaxPid + 1)
Actors == {"Farmer"}
Locations == {"Farm"}
ActionTexts == {"Harvested"}
Amounts == {0}
Batches == {"B1"}
Transports == {"Truck"}
NotesTexts == {"ok"}
Receivers == {"Retailer"}

(* ------------------------------ Hasher --------------------------------- *)
\* the keys a block dict can hold, in the order sort_keys=True puts them
SortedBlockKeys == <<"hash", "index", "previous_hash", "proof", "timestamp", "transactions">>

SortedTxKeys == <<"action", "actor", "amount", "batch", "location", "notes",
                  "product_id", "receiver", "timestamp", "transport">>

\* json.dumps(tx, sort_keys=True) of one transaction dict
DumpsTx(tx) ==
  LET ks == SelectSeq(SortedTxKeys, LAMBDA k : k \in DOMAIN tx)
  IN  [i \in 1..Len(ks) |-> <<ks[i], tx[ks[i]]>>]

\* json.dumps(block_copy, sort_keys=True)
Dumps(d) ==
  LET ks == SelectSeq(SortedBlockKeys, LAMBDA k : k \in DOMAIN d)
  IN  [i \in 1..Len(ks) |->
         <<ks[i],
           IF ks[i] = "transactions"
             THEN [j \in 1..Len(d[ks[i]]) |-> DumpsTx(d[ks[i]][j])]
             ELSE d[ks[i]]>>]

\* hashlib.sha256(s).hexdigest(), idealised as injective
Sha256Hex(s) == "sha256:" \o ToString(s)

\* variant: the "hash" key is not popped from the copy before it is dumped
Hash_nopop(block) == Sha256Hex(Dumps(block))

\* SupplyChainBlockchain.hash: copy, pop "hash", dump with sorted keys, digest
Hash(block) ==
  LET block_copy == [k \in (DOMAIN block) \ {"hash"} |-> block[k]]
  IN  Sha256Hex(Dumps(block_copy))

\* hashed before hash() has been called from outside the class
NotHashed == [given |-> [index |-> 0], after |-> [index |-> 0]]

\* the dicts hash() is applied to: a block as stored, the same block before
\* its "hash" key is set (line 30), and the same block with another stored hash
HashInputs(block) ==
  {block,
   [k \in (DOMAIN block) \ {"hash"} |-> block[k]],
   [block EXCEPT !.hash = "sha256:other"]}

\* lines 57-58: the pop acts on block_copy; the dict given keeps all its keys
HashArgAfter(block) == block

\* a call SupplyChainBlockchain.hash(block) from outside the class; hashed
\* records the dict given and the same dict object after the call.  The
\* calls of one behaviour are all made on the same dict.
hash(block) ==
  /\ hashed = NotHashed \/ hashed.given = block
  /\ repeat < MaxRepeat
  /\ ret' = Hash(block)
  /\ hashed' = [given |-> block, after |-> HashArgAfter(block)]
  /\ lastOp' = "hash"
  /\ repeat' = repeat + 1
  /\ UNCHANGED <<chain, pending_transactions, product_counter, now, commits,
                 created, tampered, submitted, nb, dst_end>>

(* --------------------------- chain validation -------------------------- *)
\* the loop of lines 67-74 from position i (1-based: curr = ch[i], prev = ch[i-1])
RECURSIVE ValidFrom(_, _)
ValidFrom(ch, i) ==
  IF i > Len(ch) THEN TRUE
  ELSE IF ch[i].previous_hash # ch[i - 1].hash THEN FALSE
  ELSE IF ch[i].hash # Hash(ch[i]) THEN FALSE
  ELSE ValidFrom(ch, i + 1)

\* variant: only the newest block is compared with its predecessor
IsChainValid_lastonly(ch) == ValidFrom(ch, IF Len(ch) < 2 THEN 2 ELSE Len(ch))

IsChainValid(ch) == ValidFrom(ch, 2)

(* ----------------------------- new_block ------------------------------- *)
\* variant: links every block to the first block instead of the last one
BuildBlock_firstlink(ch, pool, proof, previous_hash, t) ==
  LET block == [index |-> Len(ch) + 1,
                timestamp |-> t,
                transactions |-> [i \in 1..Len(pool) |-> pool[i]],
                proof |-> proof,
                previous_hash |-> IF previous_hash # None
                                    THEN previous_hash
                                    ELSE Hash(ch[1])]
  IN  [index |-> block.index, timestamp |-> block.timestamp,
       transactions |-> block.transactions, proof |-> block.proof,
       previous_hash |-> block.previous_hash, hash |-> Hash(block)]

\* variant: 0-based block index (len(self.chain) without the + 1)
BuildBlock_zeroindex(ch, pool, proof, previous_hash, t) ==
  LET block == [index |-> Len(ch),
                timestamp |-> t,
                transactions |-> [i \in 1..Len(pool) |-> pool[i]],
                proof |-> proof,
                previous_hash |-> IF previous_hash # None
                                    THEN previous_hash
                                    ELSE Hash(ch[Len(ch)])]
  IN  [index |-> block.index, timestamp |-> block.timestamp,
       transactions |-> block.transactions, proof |-> block.proof,
       previous_hash |-> block.previous_hash, hash |-> Hash(block)]

\* variant: the hash is taken before the transactions are put in the block
BuildBlock_earlyhash(ch, pool, proof, previous_hash, t) ==
  LET block == [index |-> Len(ch) + 1,
                timestamp |-> t,
                transactions |-> <<>>,
                proof |-> proof,
                previous_hash |-> IF previous_hash # None
                                    THEN previous_hash
                                    ELSE Hash(ch[Len(ch)])]
  IN  [index |-> block.index, timestamp |-> block.timestamp,
       transactions |-> [i \in 1..Len(pool) |-> pool[i]], proof |-> block.proof,
       previous_hash |-> block.previous_hash, hash |-> Hash(block)]

\* variant: the index is the number of blocks committed after the genesis block
BuildBlock_commitindex(ch, pool, proof, previous_hash, t) ==
  LET block_transactions == [i \in 1..Len(pool) |-> pool[i]]
      block == [index |-> IF ch = <<>> THEN 1 ELSE Len(ch),
                timestamp |-> t,
                transactions |-> block_transactions,
                proof |-> proof,
                previous_hash |-> IF previous_hash # None
                                    THEN previous_hash
                                    ELSE Hash(ch[Len(ch)])]
  IN  [index |-> block.index,
       timestamp |-> block.timestamp,
       transactions |-> block.transactions,
       proof |-> block.proof,
       previous_hash |-> block.previous_hash,
       hash |-> Hash(block)]

\* lines 21-30: the block dict built by new_block, hash included
BuildBlock(ch, pool, proof, previous_hash, t) ==
  LET block_transactions == [i \in 1..Len(pool) |-> pool[i]]
      block == [index |-> Len(ch) + 1,
                timestamp |-> t,
                transactions |-> block_transactions,
                proof |-> proof,
                previous_hash |-> IF previous_hash # None
                                    THEN previous_hash
                                    ELSE Hash(ch[Len(ch)])]
  IN  [index |-> block.index,
       timestamp |-> block.timestamp,
       transactions |-> block.transactions,
       proof |-> block.proof,
       previous_hash |-> block.previous_hash,
       hash |-> Hash(block)]

last_block == chain[Len(chain)]

\* variant: the pool is not reset after the block is built
new_block_nodrain(proof, previous_hash) ==
  /\ Len(chain) < MaxChain
  /\ LET block == BuildBlock(chain, pending_transactions, proof, previous_hash, now)
     IN  /\ chain' = Append(chain, block)
         /\ ret' = block
  /\ lastOp' = "new_block"
  /\ commits' = commits + 1
  /\ repeat' = 0
  /\ UNCHANGED <<pending_transactions, product_counter, now, created, tampered, submitted, nb, dst_end, hashed>>

\* variant: refuses to append (returns the last block) when the chain is invalid
new_block_refuse(proof, previous_hash) ==
  /\ Len(chain) < MaxChain
  /\ IF IsChainValid(chain)
       THEN LET block == BuildBlock(chain, pending_transactions, proof,
                                    previous_hash, now)
            IN  /\ chain' = Append(chain, block)
                /\ ret' = block
                /\ pending_transactions' = <<>>
       ELSE /\ ret' = last_block
            /\ UNCHANGED <<chain, pending_transactions>>
  /\ lastOp' = "new_block"
  /\ commits' = commits + 1
  /\ repeat' = 0
  /\ UNCHANGED <<product_counter, now, created, tampered, submitted, nb, dst_end, hashed>>

\* variant: the events are stamped again, with the commit time
new_block_restamp(proof, previous_hash) ==
  /\ Len(chain) < MaxChain
  /\ LET stamped == [i \in 1..Len(pending_transactions) |->
                       [pending_transactions[i] EXCEPT !.timestamp = now]]
         block == BuildBlock(chain, stamped, proof, previous_hash, now)
     IN  /\ chain' = Append(chain, block)
         /\ ret' = block
  /\ pending_transactions' = <<>>
  /\ lastOp' = "new_block"
  /\ commits' = commits + 1
  /\ repeat' = 0
  /\ UNCHANGED <<product_counter, now, created, tampered, submitted, nb, dst_end, hashed>>

\* variant: the pool is reset before its contents are copied into the block
new_block_latecopy(proof, previous_hash) ==
  /\ Len(chain) < MaxChain
  /\ LET block == BuildBlock(chain, <<>>, proof, previous_hash, now)
     IN  /\ chain' = Append(chain, block)
         /\ ret' = block
  /\ pending_transactions' = <<>>
  /\ lastOp' = "new_block"
  /\ commits' = commits + 1
  /\ repeat' = 0
  /\ UNCHANGED <<product_counter, now, created, tampered, submitted, nb, dst_end, hashed>>

new_block(proof, previous_hash) ==
  /\ Len(chain) < MaxChain
  /\ LET block == BuildBlock(chain, pending_transactions, proof, previous_hash, now)
     IN  /\ chain' = Append(chain, block)
         /\ ret' = block
  /\ pending_transactions' = <<>>
  /\ lastOp' = "new_block"
  /\ commits' = commits + 1
  /\ repeat' = 0
  /\ UNCHANGED <<product_counter, now, created, tampered, submitted, nb, dst_end, hashed>>

(* --------------------------- add_transaction --------------------------- *)
\* number of events held by the blocks ch[1..Len(ch)] (line 135, total_steps)
RECURSIVE CommittedEvents(_)
CommittedEvents(ch) ==
  IF ch = <<>> THEN 0
  ELSE Len(ch[Len(ch)].transactions) + CommittedEvents(SubSeq(ch, 1, Len(ch) - 1))

Transaction(product_id, actor, location, action, amount, batch, transport, notes, receiver, t) ==
  [product_id |-> product_id, actor |-> actor, location |-> location,
   action |-> action, amount |-> amount, batch |-> batch,
   transport |-> transport, notes |-> notes, receiver |-> receiver,
   timestamp |-> t]

\* variant: the last block's list is the pool's list, so the event lands in both
add_transaction_alias(product_id, actor, location, action, amount, batch, transport, notes, receiver) ==
  /\ CommittedEvents(chain) + Len(pending_transactions) < MaxEvents
  /\ LET transaction == Transaction(product_id, actor, location, action, amount,
                                    batch, transport, notes, receiver, now)
     IN  /\ pending_transactions' = Append(pending_transactions, transaction)
         /\ chain' = [chain EXCEPT ![Len(chain)].transactions = Append(@, transaction)]
         /\ submitted' = Append(submitted, transaction)
  /\ ret' = product_id
  /\ lastOp' = "add_transaction"
  /\ repeat' = 0
  /\ UNCHANGED <<product_counter, now, commits, created, tampered, nb, dst_end, hashed>>

add_transaction(product_id, actor, location, action, amount, batch, transport, notes, receiver) ==
  /\ CommittedEvents(chain) + Len(pending_transactions) < MaxEvents
  /\ LET transaction == Transaction(product_id, actor, location, action, amount,
                                    batch, transport, notes, receiver, now)
     IN  /\ pending_transactions' = Append(pending_transactions, transaction)
         /\ submitted' = Append(submitted, transaction)
  /\ ret' = product_id
  /\ lastOp' = "add_transaction"
  /\ repeat' = 0
  /\ UNCHANGED <<chain, product_counter, now, commits, created, tampered, nb, dst_end, hashed>>

(* ---------------------------- create_product --------------------------- *)
\* variant: returns the counter before the increment
create_product_postinc ==
  /\ product_counter < MaxProducts
  /\ product_counter' = product_counter + 1
  /\ ret' = product_counter
  /\ created' = created + 1
  /\ lastOp' = "create_product"
  /\ repeat' = 0
  /\ UNCHANGED <<chain, pending_transactions, now, commits, tampered, submitted, nb, dst_end, hashed>>

create_product ==
  /\ product_counter < MaxProducts
  /\ product_counter' = product_counter + 1
  /\ ret' = product_counter'
  /\ created' = created + 1
  /\ lastOp' = "create_product"
  /\ repeat' = 0
  /\ UNCHANGED <<chain, pending_transactions, now, commits, tampered, submitted, nb, dst_end, hashed>>

(* ---------------------------- is_chain_valid --------------------------- *)
\* variant: stores the recomputed digest into curr["hash"] while checking
is_chain_valid_restamp ==
  /\ repeat < MaxRepeat
  /\ ret' = IsChainValid(chain)
  /\ chain' = [i \in 1..Len(chain) |->
                 IF i >= 2 THEN [chain[i] EXCEPT !.hash = Hash(chain[i])]
                 ELSE chain[i]]
  /\ lastOp' = "is_chain_valid"
  /\ repeat' = repeat + 1
  /\ UNCHANGED <<pending_transactions, product_counter, now, commits,
                 created, tampered, submitted, nb, dst_end, hashed>>

is_chain_valid ==
  /\ repeat < MaxRepeat
  /\ ret' = IsChainValid(chain)
  /\ lastOp' = "is_chain_valid"
  /\ repeat' = repeat + 1
  /\ UNCHANGED <<chain, pending_transactions, product_counter, now, commits,
                 created, tampered, submitted, nb, dst_end, hashed>>

(* ------------------------ history reconstruction ----------------------- *)
\* time.localtime(t): the epoch time shifted by the UTC offset in force at t.
\* Offsets are counted from the one in force after the clocks were set back.
LocalTime(t) ==
  IF dst_end # NoDstEnd /\ t >= dst_end THEN t
  ELSE t + DstShiftSeconds * TicksPerSecond

\* time.strftime("%Y-%m-%d %H:%M:%S", time.localtime(t)): whole seconds
FormatTime(t) == LocalTime(t) \div TicksPerSecond

HistoryEntry(block, tx) ==
  [block_index |-> block.index,
   actor |-> tx.actor,
   location |-> tx.location,
   action |-> tx.action,
   amount |-> tx.amount,
   batch |-> tx.batch,
   transport |-> tx.transport,
   notes |-> tx.notes,
   receiver |-> tx.receiver,
   timestamp |-> FormatTime(tx.timestamp)]

\* variant: history.insert(0, entry) instead of history.append(entry)
RECURSIVE TrackBlock_prepend(_, _, _, _)
TrackBlock_prepend(block, j, product_id, history) ==
  IF j > Len(block.transactions) THEN history
  ELSE TrackBlock_prepend(block, j + 1, product_id,
         IF block.transactions[j].product_id = product_id
           THEN <<HistoryEntry(block, block.transactions[j])>> \o history
           ELSE history)

\* inner loop of track_product over block.transactions[j..]
RECURSIVE TrackBlock(_, _, _, _)
TrackBlock(block, j, product_id, history) ==
  IF j > Len(block.transactions) THEN history
  ELSE TrackBlock(block, j + 1, product_id,
         IF block.transactions[j].product_id = product_id
           THEN Append(history, HistoryEntry(block, block.transactions[j]))
           ELSE history)

\* outer loop of track_product over chain[i..]
RECURSIVE TrackChain(_, _, _, _)
TrackChain(ch, i, product_id, history) ==
  IF i > Len(ch) THEN history
  ELSE TrackChain(ch, i + 1, product_id, TrackBlock(ch[i], 1, product_id, history))

TrackProduct(ch, product_id) == TrackChain(ch, 1, product_id, <<>>)

track_product(product_id) ==
  /\ ret' = TrackProduct(chain, product_id)
  /\ lastOp' = "track_product"
  /\ repeat' = 0
  /\ UNCHANGED <<chain, pending_transactions, product_counter, now, commits,
                 created, tampered, submitted, nb, dst_end, hashed>>

SummaryRow(block, tx) ==
  ("Product ID" :> tx.product_id) @@ ("Actor" :> tx.actor) @@
  ("Action" :> tx.action) @@ ("Location" :> tx.location) @@
  ("Amount" :> tx.amount) @@ ("Batch" :> tx.batch) @@
  ("Transport" :> tx.transport) @@ ("Notes" :> tx.notes) @@
  ("Receiver" :> tx.receiver) @@
  ("Timestamp" :> FormatTime(tx.timestamp)) @@ ("Block" :> block.index)

\* variant: rows.insert(0, row) instead of rows.append(row)
RECURSIVE SummaryBlock_prepend(_, _, _)
SummaryBlock_prepend(block, j, rows) ==
  IF j > Len(block.transactions) THEN rows
  ELSE SummaryBlock_prepend(block, j + 1,
         <<SummaryRow(block, block.transactions[j])>> \o rows)

\* inner loop of all_transactions_summary over block.transactions[j..]
RECURSIVE SummaryBlock(_, _, _)
SummaryBlock(block, j, rows) ==
  IF j > Len(block.transactions) THEN rows
  ELSE SummaryBlock(block, j + 1, Append(rows, SummaryRow(block, block.transactions[j])))

RECURSIVE SummaryChain(_, _, _)
SummaryChain(ch, i, rows) ==
  IF i > Len(ch) THEN rows
  ELSE SummaryChain(ch, i + 1, SummaryBlock(ch[i], 1, rows))

AllTransactionsSummary(ch) == SummaryChain(ch, 1, <<>>)

all_transactions_summary ==
  /\ ret' = AllTransactionsSummary(chain)
  /\ lastOp' = "all_transactions_summary"
  /\ repeat' = 0
  /\ UNCHANGED <<chain, pending_transactions, product_counter, now, commits,
                 created, tampered, submitted, nb, dst_end, hashed>>

(* -------------------------------- clock -------------------------------- *)
\* the wall clock read by time.time() advances between calls
Tick ==
  /\ now < MaxTime
  /\ now' = now + 1
  /\ UNCHANGED <<chain, pending_transactions, product_counter, lastOp, ret,
                 commits, created, repeat, tampered, submitted, nb, dst_end, hashed>>

\* the same, and the tick reached is the instant at which the time zone of
\* the process sets its local clocks back (end of daylight saving time)
TickDstEnd ==
  /\ now < MaxTime
  /\ dst_end = NoDstEnd
  /\ now' = now + 1
  /\ dst_end' = now + 1
  /\ UNCHANGED <<chain, pending_transactions, product_counter, lastOp, ret,
                 commits, created, repeat, tampered, submitted, nb, hashed>>

(* ----------------------------- construction ---------------------------- *)
\* SupplyChainBlockchain.__init__
Init ==
  /\ now = StartTime
  /\ chain = <<BuildBlock(<<>>, <<>>, GenesisProof, Sentinel, now)>>
  /\ pending_transactions = <<>>
  /\ product_counter = 0
  /\ lastOp = "__init__"
  /\ ret = None
  /\ commits = 0
  /\ created = 0
  /\ repeat = 0
  /\ tampered = FALSE
  /\ submitted = <<>>
  /\ nb = NbIdle
  /\ dst_end = NoDstEnd
  /\ hashed = NotHashed

\* add_transaction with its arguments drawn from the input domains
AddTransactionCall ==
  \E product_id \in ProductIds, actor \in Actors, location \in Locations,
     action \in ActionTexts, amount \in Amounts, batch \in Batches,
     transport \in Transports, notes \in NotesTexts, receiver \in Receivers :
       add_transaction(product_id, actor, location, action, amount, batch,
                       transport, notes, receiver)

\* new_block as every caller after construction uses it: no previous_hash
CommitCall == \E proof \in Proofs : new_block(proof, None)

TrackCall == \E product_id \in QueryIds : track_product(product_id)

Next ==
  \/ create_product
  \/ AddTransactionCall
  \/ CommitCall
  \/ is_chain_valid
  \/ TrackCall
  \/ all_transactions_summary
  \/ Tick
  \/ TickDstEnd

Spec == Init /\ [][Next]_vars

(* --------------------------- direct hashing ---------------------------- *)
HashCall == \E i \in 1..Len(chain) : \E block \in HashInputs(chain[i]) : hash(block)

NextHash == Next \/ HashCall

SpecHash == Init /\ [][NextHash]_vars

(* ------------------------- external tampering -------------------------- *)
\* Not an operation of the class: somebody holding a reference to a block
\* dict (last_block, bc.chain) overwrites one value in place.  No hash is
\* recomputed.  At most one such mutation happens in a behaviour.
BlockIntKeys == {"index", "timestamp", "proof"}
BlockHashKeys == {"previous_hash", "hash"}
TxIntKeys == {"product_id", "amount", "timestamp"}
TxTextKeys == {"actor", "location", "action", "batch", "transport", "notes", "receiver"}
BogusHash == "sha256:bogus"
BogusText == "tampered"

\* the values a block field can be overwritten with
BlockFieldValues(key, old) ==
  IF key \in BlockIntKeys THEN {old + 1}
  ELSE {BogusHash, Sentinel} \ {old}

\* the values an event field can be overwritten with
TxFieldValues(key, old) ==
  IF key \in TxIntKeys THEN {old + 1}
  ELSE IF key = "action" THEN (ActionTexts \cup {BogusText}) \ {old}
  ELSE {BogusText} \ {old}

TamperDone ==
  /\ tampered' = TRUE
  /\ lastOp' = "tamper"
  /\ ret' = None
  /\ repeat' = 0
  /\ UNCHANGED <<pending_transactions, product_counter, now, commits, created,
                 submitted, nb, dst_end, hashed>>

TamperBlockField(i, key, value) ==
  /\ ~tampered
  /\ chain' = [chain EXCEPT ![i][key] = value]
  /\ TamperDone

TamperEventField(i, j, key, value) ==
  /\ ~tampered
  /\ chain' = [chain EXCEPT ![i].transactions[j][key] = value]
  /\ TamperDone

TamperBlock ==
  \E i \in 1..Len(chain), key \in BlockIntKeys \cup BlockHashKeys :
    \E value \in BlockFieldValues(key, chain[i][key]) :
      TamperBlockField(i, key, value)

TamperEvent ==
  \E i \in 1..Len(chain) :
    \E j \in 1..Len(chain[i].transactions), key \in TxIntKeys \cup TxTextKeys :
      \E value \in TxFieldValues(key, chain[i].transactions[j][key]) :
        TamperEventField(i, j, key, value)

NextTamper ==
  \/ Next
  \/ TamperBlock
  \/ TamperEvent

SpecTamper == Init /\ [][NextTamper]_vars

(* ----------------------- new_block, line by line ---------------------- *)
\* line 21: block_transactions = [tx.copy() for tx in self.pending_transactions]
nb_snapshot(proof, previous_hash) ==
  /\ nb = NbIdle
  /\ Len(chain) < MaxChain
  /\ nb' = [pc |-> "build", proof |-> proof, previous_hash |-> previous_hash,
            block_transactions |-> [i \in 1..Len(pending_transactions) |->
                                      pending_transactions[i]]]
  /\ UNCHANGED <<chain, pending_transactions, product_counter, now, lastOp, ret,
                 commits, created, repeat, tampered, submitted, dst_end, hashed>>

\* lines 22-28: the block dict, still without its "hash" key
nb_build ==
  /\ nb.pc = "build"
  /\ LET built == BuildBlock(chain, nb.block_transactions, nb.proof,
                             nb.previous_hash, now)
     IN  nb' = [pc |-> "reset",
                block |-> [k \in (DOMAIN built) \ {"hash"} |-> built[k]]]
  /\ UNCHANGED <<chain, pending_transactions, product_counter, now, lastOp, ret,
                 commits, created, repeat, tampered, submitted, dst_end, hashed>>

\* variant: only the events that were copied are taken out of the pool
nb_reset_copied ==
  /\ nb.pc = "reset"
  /\ pending_transactions' =
       SubSeq(pending_transactions, Len(nb.block.transactions) + 1,
              Len(pending_transactions))
  /\ nb' = [pc |-> "append", block |-> nb.block]
  /\ UNCHANGED <<chain, product_counter, now, lastOp, ret, commits, created,
                 repeat, tampered, submitted, dst_end, hashed>>

\* line 29: self.pending_transactions = []
nb_reset ==
  /\ nb.pc = "reset"
  /\ pending_transactions' = <<>>
  /\ nb' = [pc |-> "append", block |-> nb.block]
  /\ UNCHANGED <<chain, product_counter, now, lastOp, ret, commits, created,
                 repeat, tampered, submitted, dst_end, hashed>>

\* lines 30-32: block["hash"] = self.hash(block); append; return block
nb_append ==
  /\ nb.pc = "append"
  /\ LET block == [k \in (DOMAIN nb.block) \cup {"hash"} |->
                     IF k = "hash" THEN Hash(nb.block) ELSE nb.block[k]]
     IN  /\ chain' = Append(chain, block)
         /\ ret' = block
  /\ nb' = NbIdle
  /\ lastOp' = "new_block"
  /\ commits' = commits + 1
  /\ repeat' = 0
  /\ UNCHANGED <<pending_transactions, product_counter, now, created, tampered,
                 submitted, dst_end, hashed>>

\* a commit that starts while no other commit is in progress
SnapshotCall == \E proof \in Proofs : nb_snapshot(proof, None)

\* new_block run as one critical section
AtomicCommitCall == nb = NbIdle /\ CommitCall

\* one committer, whose new_block runs either line by line or as one critical
\* section, and other callers whose add_transaction runs between its lines
NextInterleaved ==
  \/ SnapshotCall
  \/ nb_build
  \/ nb_reset
  \/ nb_append
  \/ AtomicCommitCall
  \/ AddTransactionCall
  \/ Tick

SpecInterleaved == Init /\ [][NextInterleaved]_vars

(* ------------------------------ UI pages ------------------------------- *)
\* what the text inputs of the Add Step form can hold; "" is an empty field
UiLocations == Locations \cup {""}
UiActionTexts == ActionTexts \cup {""}

\* truth value of a Python str in a condition
Truthy(s) == s # ""

\* number of rows the Home page shows: all_tx.tail(10)
RecentRows == 10

\* Register Product page, button pressed
RegisterPage == create_product

\* variant: the page enqueues the step and leaves the commit for later
AddStepPage_nocommit ==
  \E product_id \in ProductIds, actor \in Actors, location \in UiLocations,
     action \in UiActionTexts, amount \in Amounts, batch \in Batches,
     transport \in Transports, notes \in NotesTexts, receiver \in Receivers :
    IF Truthy(actor) /\ Truthy(location) /\ Truthy(action)
      THEN add_transaction(product_id, actor, location, action, amount, batch,
                           transport, notes, receiver)
      ELSE /\ lastOp' = "add_step_rejected"
           /\ ret' = None
           /\ repeat' = 0
           /\ UNCHANGED <<chain, pending_transactions, product_counter, now, commits,
                          created, tampered, submitted, nb, dst_end, hashed>>

\* Add Step page, form submitted (lines 167-171): add_transaction, then
\* new_block(proof=123); the clock may advance between the two calls
AddStepPage ==
  \E product_id \in ProductIds, actor \in Actors, location \in UiLocations,
     action \in UiActionTexts, amount \in Amounts, batch \in Batches,
     transport \in Transports, notes \in NotesTexts, receiver \in Receivers :
    IF Truthy(actor) /\ Truthy(location) /\ Truthy(action)
      THEN /\ Len(chain) < MaxChain
           /\ CommittedEvents(chain) + Len(pending_transactions) < MaxEvents
           /\ \E t \in now..MaxTime :
                LET transaction == Transaction(product_id, actor, location, action,
                                               amount, batch, transport, notes,
                                               receiver, now)
                    pool == Append(pending_transactions, transaction)
                    block == BuildBlock(chain, pool, UiProof, None, t)
                IN  /\ chain' = Append(chain, block)
                    /\ pending_transactions' = <<>>
                    /\ submitted' = Append(submitted, transaction)
                    /\ now' = t
                    /\ ret' = block
           /\ lastOp' = "add_step"
           /\ commits' = commits + 1
           /\ repeat' = 0
           /\ UNCHANGED <<product_counter, created, tampered, nb, dst_end, hashed>>
      ELSE /\ lastOp' = "add_step_rejected"
           /\ ret' = None
           /\ repeat' = 0
           /\ UNCHANGED <<chain, pending_transactions, product_counter, now, commits,
                          created, tampered, submitted, nb, dst_end, hashed>>

\* Track Product page, button pressed
TrackPage == \E track_id \in QueryIds : track_product(track_id)

\* the last n elements of s: DataFrame.tail(n)
TailRows(s, n) == IF Len(s) <= n THEN s ELSE SubSeq(s, Len(s) - n + 1, Len(s))

\* Home page (lines 130-144): the three metrics and the recent steps
HomePage ==
  /\ ret' = [total_products |-> product_counter,
             total_steps |-> CommittedEvents(chain),
             chain_validity |-> IsChainValid(chain),
             recent_steps |-> TailRows(AllTransactionsSummary(chain), RecentRows)]
  /\ lastOp' = "home"
  /\ repeat' = 0
  /\ UNCHANGED <<chain, pending_transactions, product_counter, now, commits,
                 created, tampered, submitted, nb, dst_end, hashed>>

\* Ledger page (lines 194-200): the blocks, newest first
LedgerPage ==
  /\ ret' = [i \in 1..Len(chain) |-> chain[Len(chain) + 1 - i]]
  /\ lastOp' = "ledger"
  /\ repeat' = 0
  /\ UNCHANGED <<chain, pending_transactions, product_counter, now, commits,
                 created, tampered, submitted, nb, dst_end, hashed>>

\* one script run per user interaction, on the ledger of the session
NextUI ==
  \/ RegisterPage
  \/ AddStepPage
  \/ TrackPage
  \/ HomePage
  \/ LedgerPage
  \/ Tick
  \/ TickDstEnd

SpecUI == Init /\ [][NextUI]_vars

(* ======================================================================= *)
(*                                 Claims                                  *)
(* ======================================================================= *)
\* steps of the individual operations, recognised by their bookkeeping
NewBlockStep == commits' = commits + 1
CreateProductStep == created' = created + 1
IsChainValidStep == lastOp' = "is_chain_valid" /\ repeat' = repeat + 1
TotalEvents == CommittedEvents(chain) + Len(pending_transactions)

\* C1: right after any single field of any block (genesis and last block
\* included) has been overwritten, with no hash recomputed,
\* is_chain_valid() returns false.
C1_TamperDetected ==
  lastOp = "tamper" => ~IsChainValid(chain)

\* C2: new_block appends one block whose transaction list is exactly the
\* pool it found, in the same order, returns that block and leaves the pool
\* empty; a commit that directly follows a commit yields a block without
\* events.
C2_DrainAtomicity ==
  [][NewBlockStep =>
       /\ Len(chain') = Len(chain) + 1
       /\ chain'[Len(chain')].transactions = pending_transactions
       /\ pending_transactions' = <<>>
       /\ ret' = chain'[Len(chain')]
       /\ (lastOp = "new_block" => chain'[Len(chain')].transactions = <<>>)]_vars

C2_Witness ==
  /\ lastOp = "new_block"
  /\ Len(last_block.transactions) = 2
  /\ last_block.transactions[1].product_id = 1
  /\ last_block.transactions[2].product_id = 2
  /\ pending_transactions = <<>>

\* C3: after N commits, however they are interleaved with the other
\* operations, the chain has N+1 blocks and every block after the first
\* carries as previous_hash the digest of the block before it.
C3_AppendOnlyLinkage ==
  /\ Len(chain) = commits + 1
  /\ \A k \in 2..Len(chain) : chain[k].previous_hash = Hash(chain[k - 1])

C3_Witness ==
  /\ commits = 2
  /\ Len(chain) = 3
  /\ product_counter > 0
  /\ Len(chain[2].transactions) > 0
  /\ Len(chain[3].transactions) > 0

\* positions <<k, j>> of the committed events of product p
MatchPositions(ch, p) ==
  {pos \in (1..Len(ch)) \X (1..MaxEvents) :
     /\ pos[2] <= Len(ch[pos[1]].transactions)
     /\ ch[pos[1]].transactions[pos[2]].product_id = p}

\* block position first, position inside the block second
Before(a, b) == a[1] < b[1] \/ (a[1] = b[1] /\ a[2] < b[2])

\* H lists exactly the committed events of p, earliest position first
IsHistoryOf(H, ch, p) ==
  LET S == MatchPositions(ch, p)
  IN  /\ Len(H) = Cardinality(S)
      /\ \A pos \in S :
           LET n == Cardinality({q \in S : Before(q, pos)}) + 1
               tx == ch[pos[1]].transactions[pos[2]]
           IN  /\ H[n].block_index = ch[pos[1]].index
               /\ H[n].actor = tx.actor
               /\ H[n].location = tx.location
               /\ H[n].action = tx.action
               /\ H[n].amount = tx.amount
               /\ H[n].batch = tx.batch
               /\ H[n].transport = tx.transport
               /\ H[n].notes = tx.notes
               /\ H[n].receiver = tx.receiver
               /\ H[n].timestamp = FormatTime(tx.timestamp)

\* C4: for every product id, used or not, track_product returns one entry
\* per committed event of that product and no other, in block order and
\* inside a block in enqueue order, each with the index of its block; the
\* events still in the pool are left out, and without a match the result is
\* the empty sequence.
C4_HistoryOrderingFiltering ==
  /\ \A p \in QueryIds :
       /\ IsHistoryOf(TrackProduct(chain, p), chain, p)
       /\ (MatchPositions(chain, p) = {} => TrackProduct(chain, p) = <<>>)
  /\ (lastOp = "track_product" => \E p \in QueryIds : IsHistoryOf(ret, chain, p))

C4_Witness ==
  /\ lastOp = "track_product"
  /\ Len(ret) = 2
  /\ ret[1].block_index < ret[2].block_index
  /\ TrackProduct(chain, MaxPid + 1) = <<>>

\* C5: right after construction there is one block, with index 1, no
\* events and previous_hash "1"; the pool is empty, the product counter is
\* 0 and is_chain_valid() is true.
C5_GenesisInvariant ==
  lastOp = "__init__" =>
    /\ Len(chain) = 1
    /\ chain[1].index = 1
    /\ chain[1].transactions = <<>>
    /\ chain[1].previous_hash = "1"
    /\ pending_transactions = <<>>
    /\ product_counter = 0
    /\ IsChainValid(chain)

C5_Witness ==
  /\ lastOp = "__init__"
  /\ commits = 0
  /\ created = 0
  /\ chain[1].proof = 100

\* C6: every step of the public operations keeps the chain it found as a
\* prefix of the chain it leaves: no block is removed, moved or changed,
\* and an event enqueued later never reaches a committed block.
C6_AppendOnlyImmutability ==
  [][/\ Len(chain) <= Len(chain')
     /\ \A i \in 1..Len(chain) : chain'[i] = chain[i]
     /\ (~NewBlockStep => chain' = chain)]_vars

C6_Witness ==
  /\ lastOp = "add_transaction"
  /\ Len(chain) = 2
  /\ Len(chain[2].transactions) = 1
  /\ Len(pending_transactions) = 1

\* C7: is_chain_valid() changes neither the chain nor the pool nor the
\* product counter, and a call that follows another call with no other
\* operation in between returns the same boolean.
C7_IdempotentValidation ==
  [][IsChainValidStep =>
       /\ chain' = chain
       /\ pending_transactions' = pending_transactions
       /\ product_counter' = product_counter
       /\ (lastOp = "is_chain_valid" => ret' = ret)]_vars

C7_Witness ==
  /\ lastOp = "is_chain_valid"
  /\ repeat = 2
  /\ ret = FALSE
  /\ Len(chain) = 3

\* C8: on a chain that is_chain_valid() rejects, the verdict is the boolean
\* false and nothing else, and the other operations act as on a valid
\* chain: add_transaction extends the pool by one event and leaves the
\* chain alone, track_product returns the history of the product it is
\* asked for, and new_block appends a block with index = chain length + 1
\* that holds the pool, and empties the pool.
C8_InvalidChainKeepsOperating ==
  [][/\ (IsChainValidStep /\ ~IsChainValid(chain) => ret' = FALSE)
     /\ (lastOp' = "add_transaction" /\ pending_transactions' # pending_transactions
           /\ ~IsChainValid(chain) =>
             /\ Len(pending_transactions') = Len(pending_transactions) + 1
             /\ chain' = chain)
     /\ (lastOp' = "track_product" /\ lastOp # "track_product"
           /\ ~IsChainValid(chain) =>
             /\ \E p \in QueryIds : IsHistoryOf(ret', chain, p)
             /\ chain' = chain)
     /\ (NewBlockStep /\ ~IsChainValid(chain) =>
             /\ Len(chain') = Len(chain) + 1
             /\ chain'[Len(chain')].index = Len(chain) + 1
             /\ chain'[Len(chain')].transactions = pending_transactions
             /\ pending_transactions' = <<>>)]_vars

C8_Witness ==
  /\ lastOp = "new_block"
  /\ Len(chain) = 3
  /\ ~IsChainValid(SubSeq(chain, 1, 2))
  /\ ~IsChainValid(chain)
  /\ Len(chain[3].transactions) = 1

\* C9: the k-th create_product() returns k, leaves chain and pool alone,
\* and no other operation changes the product counter.
C9_ProductRegistry ==
  [][/\ (CreateProductStep =>
           /\ ret' = created'
           /\ product_counter' = product_counter + 1
           /\ ret' > product_counter
           /\ chain' = chain
           /\ pending_transactions' = pending_transactions)
     /\ (~CreateProductStep => product_counter' = product_counter)]_vars

C9_Witness ==
  /\ lastOp = "create_product"
  /\ ret = 2
  /\ created = 2
  /\ Len(chain) > 1
  /\ Len(pending_transactions) > 0

\* C10: as long as only the public operations run, every block (the first
\* one included) stores the digest of its other fields, every later block's
\* previous_hash is the stored hash of the block before it, and
\* is_chain_valid() is true.
C10_BlockIntegrity ==
  /\ \A i \in 1..Len(chain) : chain[i].hash = Hash(chain[i])
  /\ \A i \in 2..Len(chain) : chain[i].previous_hash = chain[i - 1].hash
  /\ IsChainValid(chain)

C10_Witness ==
  /\ Len(chain) = 3
  /\ Len(chain[2].transactions) = 1
  /\ Len(chain[3].transactions) = 1
  /\ chain[2].timestamp < chain[3].timestamp

\* C11: new_block without an explicit previous hash links the new block to the
\* STORED hash field of the block that was last, in every state, altered
\* blocks included.
C11_LinksToStoredHash ==
  [][NewBlockStep => chain'[Len(chain')].previous_hash = chain[Len(chain)].hash]_vars

\* the events of all blocks of ch, in chain order
RECURSIVE ChainEvents(_)
ChainEvents(ch) ==
  IF ch = <<>> THEN <<>> ELSE Head(ch).transactions \o ChainEvents(Tail(ch))

\* C13: the transaction lists of all blocks in chain order, followed by the
\* pool, are exactly the events ever handed to add_transaction, in the order
\* of the calls: nothing lost, duplicated or reordered.
C13_EventConservation ==
  ChainEvents(chain) \o pending_transactions = submitted

C13_Witness ==
  /\ Len(chain) = 3
  /\ Len(chain[2].transactions) = 1
  /\ chain[3].transactions = <<>>
  /\ Len(pending_transactions) = 1
  /\ submitted[1].product_id = 2
  /\ submitted[2].product_id = 1
  /\ submitted[1].timestamp < submitted[2].timestamp

\* C16: the block at position i of the chain has index i (1-based, strictly
\* increasing, unique), and the block new_block returns has the new chain
\* length as its index.
C16_IndexEqualsPosition ==
  /\ \A i \in 1..Len(chain) : chain[i].index = i
  /\ lastOp = "new_block" => ret.index = Len(chain)

C16_Witness ==
  /\ lastOp = "new_block"
  /\ Len(chain) = 3
  /\ ret = chain[3]
  /\ chain[2].transactions = <<>>
  /\ Len(chain[3].transactions) = 1

\* positions <<k, j>> of all committed events of ch[k..], block order first,
\* order inside the block second
RECURSIVE PositionsFrom(_, _)
PositionsFrom(ch, k) ==
  IF k > Len(ch) THEN <<>>
  ELSE [j \in 1..Len(ch[k].transactions) |-> <<k, j>>] \o PositionsFrom(ch, k + 1)

\* row is the summary row of the event tx of block
IsRowOf(row, block, tx) ==
  /\ row["Product ID"] = tx.product_id
  /\ row["Actor"] = tx.actor
  /\ row["Action"] = tx.action
  /\ row["Location"] = tx.location
  /\ row["Amount"] = tx.amount
  /\ row["Batch"] = tx.batch
  /\ row["Transport"] = tx.transport
  /\ row["Notes"] = tx.notes
  /\ row["Receiver"] = tx.receiver
  /\ row["Timestamp"] = FormatTime(tx.timestamp)
  /\ row["Block"] = block.index

\* the history entry that carries the block index and event fields of row
RowAsEntry(row) ==
  [block_index |-> row["Block"],
   actor |-> row["Actor"],
   location |-> row["Location"],
   action |-> row["Action"],
   amount |-> row["Amount"],
   batch |-> row["Batch"],
   transport |-> row["Transport"],
   notes |-> row["Notes"],
   receiver |-> row["Receiver"],
   timestamp |-> row["Timestamp"]]

\* the rows of product p, in the order of rows, as history entries
RowsOfProduct(rows, p) ==
  LET sel == SelectSeq(rows, LAMBDA row : row["Product ID"] = p)
  IN  [n \in 1..Len(sel) |-> RowAsEntry(sel[n])]

\* C15: all_transactions_summary() has exactly one row per committed event,
\* in block order then enqueue order, with the index of the event's block;
\* and for every product id p, track_product(p) is the subsequence of the
\* summary rows of p: same order, same block indices, same event fields.
C15_SummaryHistoryConsistency ==
  LET rows == AllTransactionsSummary(chain)
      pos == PositionsFrom(chain, 1)
  IN  /\ Len(rows) = Len(pos)
      /\ \A n \in 1..Len(pos) :
           IsRowOf(rows[n], chain[pos[n][1]], chain[pos[n][1]].transactions[pos[n][2]])
      /\ \A p \in QueryIds : TrackProduct(chain, p) = RowsOfProduct(rows, p)
      /\ lastOp = "all_transactions_summary" => ret = rows
      /\ lastOp = "track_product" => \E p \in QueryIds : ret = RowsOfProduct(rows, p)

C15_Witness ==
  /\ lastOp = "all_transactions_summary"
  /\ Len(ret) = 2
  /\ ret[1]["Product ID"] = 2 /\ ret[1]["Block"] = 2
  /\ ret[2]["Product ID"] = 1 /\ ret[2]["Block"] = 3
  /\ Len(TrackProduct(chain, 1)) = 1
  /\ TrackProduct(chain, 1)[1].block_index = 3

\* C19: once is_chain_valid() returns false it returns false in every later
\* state reached by create_product, add_transaction and new_block (and the
\* read-only operations); appending further blocks never restores validity.
C19_InvalidityPermanent ==
  [][(~IsChainValid(chain) /\ lastOp' # "tamper") =>
       /\ ~IsChainValid(chain')
       /\ (IsChainValidStep => ret' = FALSE)]_vars

C19_Witness ==
  /\ lastOp = "is_chain_valid"
  /\ ret = FALSE
  /\ Len(chain) = 3
  /\ ~IsChainValid(SubSeq(chain, 1, 2))
  /\ chain[3].previous_hash = chain[2].hash
  /\ chain[3].hash = Hash(chain[3])
  /\ created = 1

HashStep == lastOp' = "hash"

\* the five fields of a block other than its stored hash
Content(block) ==
  [k \in {"index", "timestamp", "transactions", "proof", "previous_hash"} |-> block[k]]

\* C17: hash(block) depends on index, timestamp, transactions, proof and
\* previous_hash only: blocks equal on these get the same digest whether
\* their stored hash is present, absent or different; a repeated call on the
\* same block returns the same digest; the block given is left as it was,
\* stored hash included.
C17_HasherSelfExclusion ==
  [][HashStep =>
       /\ \A i \in 1..Len(chain) : \A block \in HashInputs(chain[i]) :
            Content(block) = Content(hashed'.given) => Hash(block) = ret'
       /\ (lastOp = "hash" /\ hashed.given = hashed'.given) => ret' = ret
       /\ hashed'.after = hashed'.given
       /\ chain' = chain]_vars

C17_Witness ==
  /\ lastOp = "hash"
  /\ repeat = 2
  /\ Len(chain) = 2
  /\ Len(chain[2].transactions) = 1
  /\ hashed.given = [chain[2] EXCEPT !.hash = "sha256:other"]
  /\ hashed.after.hash = "sha256:other"
  /\ ret = chain[2].hash

AddTransactionStep == Len(submitted') = Len(submitted) + 1

\* the events of product p among events, in the same order
EventsOfProduct(events, p) == SelectSeq(events, LAMBDA tx : tx.product_id = p)

\* every committed event of ch is stamped no later than its block
StampedBeforeCommit(ch) ==
  \A k \in 1..Len(ch) : \A j \in 1..Len(ch[k].transactions) :
    ch[k].transactions[j].timestamp <= ch[k].timestamp

\* the event timestamps are fixed at enqueue and survive the commit
StampedAtEnqueue ==
  /\ AddTransactionStep =>
       /\ submitted'[Len(submitted')].timestamp = now
       /\ pending_transactions' = Append(pending_transactions, submitted'[Len(submitted')])
  /\ NewBlockStep => chain'[Len(chain')].transactions = pending_transactions

\* the Timestamp column of the summary of ch, in output order
SummaryTimestamps(ch) ==
  LET rows == AllTransactionsSummary(ch)
  IN  [n \in 1..Len(rows) |-> rows[n]["Timestamp"]]

\* the timestamps of the entries of track_product(p) on ch, in output order
HistoryTimestamps(ch, p) ==
  LET history == TrackProduct(ch, p)
  IN  [n \in 1..Len(history) |-> history[n].timestamp]

NonDecreasing(s) == \A n \in 1..Len(s) : \A m \in n..Len(s) : s[n] <= s[m]

\* C14 as stated: each event's timestamp is the clock value at its
\* add_transaction call and is not changed by new_block; every committed
\* event's timestamp is at most its block's timestamp; and the timestamps of
\* the entries returned by track_product and all_transactions_summary are
\* non-decreasing in output order.
C14_OutputTimestampsNonDecreasing ==
  [][/\ StampedAtEnqueue
     /\ StampedBeforeCommit(chain')
     /\ NonDecreasing(SummaryTimestamps(chain'))
     /\ \A p \in QueryIds : NonDecreasing(HistoryTimestamps(chain', p))]_vars

\* UTC offset that localtime() applies to the epoch time t
UtcOffset(t) == LocalTime(t) - t

\* out[n] is the rendering of events[n].timestamp; the renderings are
\* non-decreasing between events whose UTC offset does not go down
NonDecreasingRendered(events, out) ==
  /\ Len(out) = Len(events)
  /\ \A n \in 1..Len(events) : \A m \in n..Len(events) :
       /\ events[n].timestamp <= events[m].timestamp
       /\ UtcOffset(events[n].timestamp) <= UtcOffset(events[m].timestamp)
            => out[n] <= out[m]

\* C14, amended: each event's timestamp is the clock value at its
\* add_transaction call and is not changed by new_block; every committed
\* event's timestamp is at most its block's timestamp; the events behind the
\* entries returned by track_product and all_transactions_summary have
\* non-decreasing timestamps in output order, and the rendered timestamps of
\* two entries are in that order too unless the UTC offset of local time went
\* down between the two events.
C14_EventTimestampsNonDecreasing ==
  [][/\ StampedAtEnqueue
     /\ StampedBeforeCommit(chain')
     /\ NonDecreasingRendered(ChainEvents(chain'), SummaryTimestamps(chain'))
     /\ \A p \in QueryIds :
          NonDecreasingRendered(EventsOfProduct(ChainEvents(chain'), p),
                                HistoryTimestamps(chain', p))]_vars

C14_Witness ==
  /\ lastOp = "track_product"
  /\ Len(ret) = 2
  /\ ret[1].timestamp < ret[2].timestamp
  /\ dst_end = NoDstEnd
  /\ Len(chain) = 3
  /\ Len(chain[2].transactions) = 1
  /\ Len(chain[3].transactions) = 1
  /\ chain[2].transactions[1].timestamp < chain[2].timestamp
  /\ chain[3].transactions[1].timestamp = chain[3].timestamp

\* C18: when the ledger is driven through the pages only, every accepted Add
\* Step submission enqueues one event and commits it at once: between user
\* interactions the pool is empty, every block after the first holds exactly
\* one event, and the total number of recorded steps is the chain length
\* minus 1; a submission with an empty location or action changes neither
\* the pool nor the chain.
C18_UiFlowInvariant ==
  [][/\ pending_transactions' = <<>>
     /\ \A k \in 2..Len(chain') : Len(chain'[k].transactions) = 1
     /\ CommittedEvents(chain') = Len(chain') - 1
     /\ \A k \in 2..Len(chain') :
          Truthy(chain'[k].transactions[1].location) /\ Truthy(chain'[k].transactions[1].action)
     /\ lastOp' = "home" => ret'.total_steps = Len(chain') - 1
     /\ (lastOp' = "add_step" /\ NewBlockStep) =>
          /\ Len(chain') = Len(chain) + 1
          /\ Len(submitted') = Len(submitted) + 1
          /\ ret' = chain'[Len(chain')]
          /\ ret'.transactions = <<submitted'[Len(submitted')]>>
     /\ lastOp' = "add_step_rejected" =>
          /\ chain' = chain
          /\ pending_transactions' = pending_transactions]_vars

C18_Witness ==
  /\ lastOp = "add_step_rejected"
  /\ Len(chain) = 3
  /\ chain[2].transactions[1].product_id = 2
  /\ chain[3].transactions[1].product_id = 1
  /\ chain[2].transactions[1].timestamp < chain[2].timestamp
  /\ product_counter = 1

\* the events the committer has taken out of the pool and not yet appended
InFlight == IF nb.pc = "append" THEN nb.block.transactions ELSE <<>>

\* number of submitted events that are in no block, not in the pool and not
\* in a block about to be appended
NumLost == Len(submitted) - Len(ChainEvents(chain) \o InFlight \o pending_transactions)

NbResetStep == nb.pc = "reset" /\ nb'.pc = "append"

\* C12: when new_block runs line by line and add_transaction of another
\* caller runs between the copy of the pool and its reset, the events
\* enqueued in between are lost (in no block, not in the pool): the reset
\* loses exactly the events enqueued since the copy.  No other step loses an
\* event; in particular new_block run as one critical section loses none.
C12_InterleavedCommitLosesEvents ==
  [][/\ NbResetStep =>
          NumLost' = NumLost + Len(pending_transactions) - Len(nb.block.transactions)
     /\ ~NbResetStep => NumLost' = NumLost
     /\ (NewBlockStep /\ nb = NbIdle) =>
          /\ chain'[Len(chain')].transactions = pending_transactions
          /\ pending_transactions' = <<>>]_vars

C12_Witness ==
  /\ nb = NbIdle
  /\ lastOp = "new_block"
  /\ Len(submitted) = 2
  /\ submitted[2].product_id = 2
  /\ pending_transactions = <<>>
  /\ ChainEvents(chain) = <<submitted[1]>>
  /\ submitted[1].product_id = 1
  /\ NumLost = 1

====
